---- MODULE Spec2Model ----
(***************************************************************************)
(* Model of the two Roboflow utilities:                                    *)
(*   utils/upload_to_roboflow.py    (is_valid_yolo_txt, main)              *)
(*   utils/download_from_roboflow.py (main)                                *)
(* One run of one program is one behaviour: Init chooses the program, its  *)
(* command line and the file system it starts on; the actions are the      *)
(* program's steps in source order.                                        *)
(***************************************************************************)
EXTENDS Integers, Sequences, FiniteSets, TLC

\* ------------------------------------------------------------------ bounds
MaxLines  == 2    \* lines of a label file
MaxImages == 3    \* *.jpg files of a frames folder
MaxLimit  == 2    \* largest --limit tried

\* ------------------------------------------------ text of a label file
\* A line is a sequence of chunks joined by single blanks; an empty chunk ""
\* stands for the nothing between two adjacent blanks (or before a leading /
\* after a trailing blank).  So <<"", "0", "", "1">> is the text " 0  1".
ClassTokens == {"0", "7", "1.5", "abc", "nan"}
CoordTokens == {"0", "1", "0.5", "1.5", "-0.5", "abc", "nan"}

\* bytes of a token as written
TokLen(t) ==
    CASE t = ""     -> 0
      [] t = "0"    -> 1
      [] t = "1"    -> 1
      [] t = "7"    -> 1
      [] t = "0.5"  -> 3
      [] t = "1.5"  -> 3
      [] t = "-0.5" -> 4
      [] t = "abc"  -> 3
      [] t = "nan"  -> 3

\* Python float(t): a number (kept in tenths), NaN, or ValueError.
float(t) ==
    CASE t = "0"    -> [kind |-> "num", v |-> 0]
      [] t = "1"    -> [kind |-> "num", v |-> 10]
      [] t = "7"    -> [kind |-> "num", v |-> 70]
      [] t = "0.5"  -> [kind |-> "num", v |-> 5]
      [] t = "1.5"  -> [kind |-> "num", v |-> 15]
      [] t = "-0.5" -> [kind |-> "num", v |-> -5]
      [] t = "nan"  -> [kind |-> "nan", v |-> 0]
      [] OTHER      -> [kind |-> "err", v |-> 0]

\* Python int(f) of a float: truncation toward zero; ValueError on NaN.
int(f) ==
    IF f.kind # "num" THEN [kind |-> "err", v |-> 0]
    ELSE [kind |-> "num",
          v |-> IF f.v >= 0 THEN f.v \div 10 ELSE -((-f.v) \div 10)]

\* str.split() after str.strip(): the non-empty chunks, in order.
RECURSIVE split(_)
split(line) ==
    IF line = << >> THEN << >>
    ELSE IF Head(line) = "" THEN split(Tail(line))
         ELSE <<Head(line)>> \o split(Tail(line))

\* the range test with strict comparisons (mutant)
InUnitExclusive(c) == c.kind = "num" /\ 0 < c.v /\ c.v < 10
\* the range test without its lower bound (mutant)
InUnitUpperOnly(c) == c.kind = "num" /\ c.v <= 10
\* 0.0 <= c <= 1.0 on a parsed float (every comparison with NaN is false)
InUnit(c) == c.kind = "num" /\ 0 <= c.v /\ c.v <= 10

\* The body of the for loop for one line (lines 27-38):
\*   "skip"  blank line, continue
\*   "false" return False
\*   "raise" an exception leaves the loop
\*   "ok"    ok_line = True
LineVerdict(line) ==
    LET parts == split(line) IN
    IF parts = << >> THEN "skip"
    ELSE IF Len(parts) # 5 THEN "false"
    ELSE IF int(float(parts[1])).kind = "err" THEN "raise"
    ELSE IF \E k \in 2..5 : float(parts[k]).kind = "err" THEN "raise"
    ELSE IF ~(\A k \in 2..5 : InUnit(float(parts[k]))) THEN "false"
    ELSE "ok"

\* The for loop over the remaining lines, ok_line carried along.
RECURSIVE ScanLines(_, _)
ScanLines(lines, ok_line) ==
    IF lines = << >> THEN (IF ok_line THEN "True" ELSE "False")
    ELSE LET verdict == LineVerdict(Head(lines)) IN
         CASE verdict = "skip"  -> ScanLines(Tail(lines), ok_line)
           [] verdict = "ok"    -> ScanLines(Tail(lines), TRUE)
           [] verdict = "false" -> "False"
           [] verdict = "raise" -> "raise"

\* p.stat().st_size: every line ends with a newline.
RECURSIVE LineBytes(_)
LineBytes(line) ==
    IF line = << >> THEN 0
    ELSE TokLen(Head(line)) + (IF Len(line) > 1 THEN 1 ELSE 0) + LineBytes(Tail(line))

RECURSIVE st_size(_)
st_size(lines) ==
    IF lines = << >> THEN 0 ELSE LineBytes(Head(lines)) + 1 + st_size(Tail(lines))

\* is_valid_yolo_txt(p); the except clause turns every exception into False.
is_valid_yolo_txt(file) ==
    IF ~file.exists \/ st_size(file.lines) = 0 THEN "False"
    ELSE LET r == ScanLines(file.lines, FALSE) IN
         IF r = "raise" THEN "False" ELSE r

\* ------------------------------------------------ label files tried
Line5(c, k, t) == [j \in 1..5 |-> IF j = 1 THEN c ELSE IF j = k THEN t ELSE "0.5"]

SampleLines ==
    {<< >>, <<"", "">>}
    \cup {Line5(c, 2, "0") : c \in ClassTokens}
    \cup {Line5("0", k, t) : k \in 2..5, t \in CoordTokens}
    \cup {<<"0", "0", "1", "1">>,
          <<"0", "0", "1", "1", "0", "1">>,
          <<"", "7", "", "0", "1", "1", "0", "">>}

RECURSIVE SeqsUpTo(_, _)
SeqsUpTo(S, n) ==
    IF n = 0 THEN {<< >>}
    ELSE LET shorter == SeqsUpTo(S, n - 1) IN
         shorter \cup {Append(s, x) : s \in shorter, x \in S}

MissingFile == [exists |-> FALSE, lines |-> << >>]
SampleFiles ==
    {MissingFile} \cup {[exists |-> TRUE, lines |-> ls] : ls \in SeqsUpTo(SampleLines, MaxLines)}

\* label files met in a run folder by the uploader
LabelSamples ==
    {MissingFile,
     [exists |-> TRUE, lines |-> << >>],
     [exists |-> TRUE, lines |-> <<Line5("0", 2, "0.5")>>],
     [exists |-> TRUE, lines |-> <<Line5("0", 2, "1.5")>>]}

\* ------------------------------------------------------------------ state
VARIABLES
    script,     \* which program runs: "validate", "upload", "download"
    pc,         \* position of the program
    p,          \* validate: the label file handed to is_valid_yolo_txt
    result,     \* validate: "none" until it returned, then "True" / "False"
    args,       \* parsed command line
    environ,    \* os.environ
    fs,         \* the file system the program sees
    images,     \* upload: the selected image list
    i,          \* upload: enumerate() index of the last image handled
    uploaded,   \* upload: success counter
    ann_ok,     \* upload: validity of the current image's label
    trace       \* external effects so far, in order

vars == <<script, pc, p, result, args, environ, fs, images, i, uploaded, ann_ok, trace>>

Ev(op, n, ok) == [op |-> op, n |-> n, ok |-> ok]

\* --api_key: "none" when the flag is not on the command line
ApiKeys == {"none", "", "k3y"}
SleepChoices == {0, 2}
SdkOps == {"Roboflow", "project", "upload", "download"}
FileOps == {"mkdir", "rmtree", "move", "receipt"}

NoArgs == [api_key |-> "none", limit |-> 0, sleep |-> 0, dry_run |-> FALSE, overwrite |-> FALSE]
NoFs == [frames_dir |-> FALSE, labels_dir |-> FALSE, frames |-> {}, roboflow_pkg |-> TRUE,
         src |-> FALSE, dest_root |-> FALSE, dest |-> "absent", receipt |-> "absent"]
NoEnv == [ROBOFLOW_API_KEY |-> ""]

InitValidate ==
    /\ script = "validate" /\ pc = "call"
    /\ p \in SampleFiles
    /\ args = NoArgs /\ environ = NoEnv /\ fs = NoFs

InitUpload ==
    /\ script = "upload" /\ pc = "parse_args"
    /\ p = MissingFile
    /\ \E k \in ApiKeys, l \in 0..MaxLimit, s \in SleepChoices, d \in BOOLEAN :
          args = [NoArgs EXCEPT !.api_key = k, !.limit = l, !.sleep = s, !.dry_run = d]
    /\ environ = NoEnv
    /\ \E fd \in BOOLEAN, ld \in BOOLEAN, fr \in SUBSET (1..MaxImages) :
          /\ (~fd => fr = {})
          /\ fs = [NoFs EXCEPT !.frames_dir = fd, !.labels_dir = ld, !.frames = fr]

InitDownload ==
    /\ script = "download" /\ pc = "parse_args"
    /\ p = MissingFile
    /\ \E k \in ApiKeys, o \in BOOLEAN : args = [NoArgs EXCEPT !.api_key = k, !.overwrite = o]
    /\ environ \in {NoEnv, [ROBOFLOW_API_KEY |-> "envk3y"]}
    /\ \E pkg \in BOOLEAN, root \in BOOLEAN, d \in {"absent", "old"}, r \in {"absent", "old"} :
          /\ (d = "old" => root)
          /\ (r = "old" => d = "old")
          /\ fs = [NoFs EXCEPT !.roboflow_pkg = pkg, !.dest_root = root, !.dest = d, !.receipt = r]

Init ==
    /\ (InitValidate \/ InitUpload \/ InitDownload)
    /\ result = "none"
    /\ images = << >> /\ i = 0 /\ uploaded = 0 /\ ann_ok = FALSE
    /\ trace = << >>

\* ------------------------------------------------ is_valid_yolo_txt run
Validate ==
    /\ script = "validate" /\ pc = "call"
    /\ result' = is_valid_yolo_txt(p)
    /\ pc' = "done"
    /\ UNCHANGED <<script, p, args, environ, fs, images, i, uploaded, ann_ok, trace>>

\* ------------------------------------------------ upload_to_roboflow.main
\* sorted(frames_dir.glob("*.jpg")): ascending sequence of a set of names
RECURSIVE sorted(_)
sorted(S) ==
    IF S = {} THEN << >>
    ELSE LET m == CHOOSE x \in S : \A y \in S : x <= y IN <<m>> \o sorted(S \ {m})

\* images[:limit]
Take(s, n) == SubSeq(s, 1, IF n < Len(s) THEN n ELSE Len(s))

\* ap.parse_args(): --api_key is required, argparse exits with usage (status 2)
UploadParseArgs ==
    /\ script = "upload" /\ pc = "parse_args"
    /\ IF args.api_key = "none"
       THEN pc' = "exited" /\ trace' = Append(trace, Ev("exit", 2, FALSE))
       ELSE pc' = "check_dirs" /\ UNCHANGED trace
    /\ UNCHANGED <<script, p, result, args, environ, fs, images, i, uploaded, ann_ok>>

\* frames_dir.is_dir() or SystemExit; a missing labels folder only warns
UploadCheckDirs ==
    /\ script = "upload" /\ pc = "check_dirs"
    /\ IF ~fs.frames_dir
       THEN pc' = "exited" /\ trace' = Append(trace, Ev("exit", 1, FALSE))
       ELSE pc' = "connect" /\ UNCHANGED trace
    /\ UNCHANGED <<script, p, result, args, environ, fs, images, i, uploaded, ann_ok>>

\* Roboflow(api_key=...), rf.workspace(...).project(...): either may raise
UploadConnect ==
    /\ script = "upload" /\ pc = "connect"
    /\ \/ /\ trace' = trace \o <<Ev("Roboflow", 0, TRUE), Ev("project", 0, TRUE)>>
          /\ pc' = "collect"
       \/ /\ trace' = trace \o <<Ev("Roboflow", 0, FALSE), Ev("raise", 0, FALSE)>>
          /\ pc' = "crashed"
       \/ /\ trace' = trace \o <<Ev("Roboflow", 0, TRUE), Ev("project", 0, FALSE), Ev("raise", 0, FALSE)>>
          /\ pc' = "crashed"
    /\ UNCHANGED <<script, p, result, args, environ, fs, images, i, uploaded, ann_ok>>

\* images = sorted(glob), cut to --limit when positive; uploaded = 0
UploadCollect ==
    /\ script = "upload" /\ pc = "collect"
    /\ images' = IF args.limit > 0 THEN Take(sorted(fs.frames), args.limit) ELSE sorted(fs.frames)
    /\ uploaded' = 0
    /\ i' = 0
    /\ pc' = "loop"
    /\ UNCHANGED <<script, p, result, args, environ, fs, ann_ok, trace>>

\* one pass of the for loop with every failure ending the loop (mutant)
UploadIterationStopOnError ==
    /\ script = "upload" /\ pc = "loop" /\ i < Len(images)
    /\ i' = i + 1
    /\ \E label \in LabelSamples :
          ann_ok' = (is_valid_yolo_txt(IF fs.labels_dir THEN label ELSE MissingFile) = "True")
    /\ IF args.dry_run
       THEN /\ trace' = Append(trace, Ev("dry", images[i + 1], TRUE))
            /\ UNCHANGED <<uploaded, pc>>
       ELSE \/ /\ uploaded' = uploaded + 1
               /\ trace' = trace \o <<Ev("upload", images[i + 1], TRUE)>>
                           \o (IF args.sleep > 0 THEN <<Ev("sleep", args.sleep, TRUE)>> ELSE << >>)
               /\ UNCHANGED pc
            \/ /\ trace' = Append(trace, Ev("upload", images[i + 1], FALSE))
               /\ pc' = "crashed"
               /\ UNCHANGED uploaded
    /\ UNCHANGED <<script, p, result, args, environ, fs, images>>

\* one pass of the for loop that uploads even under --dry_run (mutant)
UploadIterationIgnoreDry ==
    /\ script = "upload" /\ pc = "loop" /\ i < Len(images)
    /\ i' = i + 1
    /\ \E label \in LabelSamples :
          ann_ok' = (is_valid_yolo_txt(IF fs.labels_dir THEN label ELSE MissingFile) = "True")
    /\ \/ /\ uploaded' = uploaded + 1
          /\ trace' = trace \o <<Ev("upload", images[i + 1], TRUE)>>
                      \o (IF args.sleep > 0 THEN <<Ev("sleep", args.sleep, TRUE)>> ELSE << >>)
       \/ /\ trace' = Append(trace, Ev("upload", images[i + 1], FALSE))
          /\ UNCHANGED uploaded
    /\ UNCHANGED <<script, pc, p, result, args, environ, fs, images>>

\* one pass of the for loop (lines 92-120)
UploadIteration ==
    /\ script = "upload" /\ pc = "loop" /\ i < Len(images)
    /\ i' = i + 1
    /\ \E label \in LabelSamples :
          ann_ok' = (is_valid_yolo_txt(IF fs.labels_dir THEN label ELSE MissingFile) = "True")
    /\ IF args.dry_run
       THEN /\ trace' = Append(trace, Ev("dry", images[i + 1], TRUE))
            /\ UNCHANGED uploaded
       ELSE \* project.upload returns: count it, then sleep if asked
            \/ /\ uploaded' = uploaded + 1
               /\ trace' = trace \o <<Ev("upload", images[i + 1], TRUE)>>
                           \o (IF args.sleep > 0 THEN <<Ev("sleep", args.sleep, TRUE)>> ELSE << >>)
            \* project.upload raises: the except clause logs and goes on
            \/ /\ trace' = Append(trace, Ev("upload", images[i + 1], FALSE))
               /\ UNCHANGED uploaded
    /\ UNCHANGED <<script, pc, p, result, args, environ, fs, images>>

\* the final "Done. Uploaded n/m" report
UploadDone ==
    /\ script = "upload" /\ pc = "loop" /\ i = Len(images)
    /\ trace' = Append(trace, Ev("done", uploaded, TRUE))
    /\ pc' = "done"
    /\ UNCHANGED <<script, p, result, args, environ, fs, images, i, uploaded, ann_ok>>

\* ------------------------------------------------ download_from_roboflow.main
\* ap.parse_args(): --api_key is required, argparse exits with usage (status 2);
\* os.environ is not consulted
DownloadParseArgs ==
    /\ script = "download" /\ pc = "parse_args"
    /\ IF args.api_key = "none"
       THEN pc' = "exited" /\ trace' = Append(trace, Ev("exit", 2, FALSE))
       ELSE pc' = "check_key" /\ UNCHANGED trace
    /\ UNCHANGED <<script, p, result, args, environ, fs, images, i, uploaded, ann_ok>>

\* if not args.api_key: SystemExit
DownloadCheckKey ==
    /\ script = "download" /\ pc = "check_key"
    /\ IF args.api_key = ""
       THEN pc' = "exited" /\ trace' = Append(trace, Ev("exit", 1, FALSE))
       ELSE pc' = "import" /\ UNCHANGED trace
    /\ UNCHANGED <<script, p, result, args, environ, fs, images, i, uploaded, ann_ok>>

\* from roboflow import Roboflow, or SystemExit("Missing dependency")
DownloadImport ==
    /\ script = "download" /\ pc = "import"
    /\ IF ~fs.roboflow_pkg
       THEN pc' = "exited" /\ trace' = Append(trace, Ev("exit", 1, FALSE))
       ELSE pc' = "connect" /\ UNCHANGED trace
    /\ UNCHANGED <<script, p, result, args, environ, fs, images, i, uploaded, ann_ok>>

\* Roboflow(api_key=...), rf.workspace(...).project(...): either may raise
DownloadConnect ==
    /\ script = "download" /\ pc = "connect"
    /\ \/ /\ trace' = trace \o <<Ev("Roboflow", 0, TRUE), Ev("project", 0, TRUE)>>
          /\ pc' = "download"
       \/ /\ trace' = trace \o <<Ev("Roboflow", 0, FALSE), Ev("raise", 0, FALSE)>>
          /\ pc' = "crashed"
       \/ /\ trace' = trace \o <<Ev("Roboflow", 0, TRUE), Ev("project", 0, FALSE), Ev("raise", 0, FALSE)>>
          /\ pc' = "crashed"
    /\ UNCHANGED <<script, p, result, args, environ, fs, images, i, uploaded, ann_ok>>

\* project.version(v).download(format); ds.location must exist
DownloadFetch ==
    /\ script = "download" /\ pc = "download"
    /\ \/ /\ trace' = Append(trace, Ev("download", 0, TRUE))
          /\ fs' = [fs EXCEPT !.src = TRUE]
          /\ pc' = "resolve_dest"
       \/ /\ trace' = trace \o <<Ev("download", 0, TRUE), Ev("exit", 1, FALSE)>>
          /\ UNCHANGED fs
          /\ pc' = "exited"
       \/ /\ trace' = trace \o <<Ev("download", 0, FALSE), Ev("raise", 0, FALSE)>>
          /\ UNCHANGED fs
          /\ pc' = "crashed"
    /\ UNCHANGED <<script, p, result, args, environ, images, i, uploaded, ann_ok>>

\* lines 57-69 with the existing destination removed whatever --overwrite says (mutant)
DownloadResolveDestAlways ==
    /\ script = "download" /\ pc = "resolve_dest"
    /\ IF fs.dest # "absent"
       THEN /\ fs' = [fs EXCEPT !.dest_root = TRUE, !.dest = "absent", !.receipt = "absent"]
            /\ trace' = trace \o <<Ev("mkdir", 0, TRUE), Ev("rmtree", 0, TRUE)>>
            /\ pc' = "move"
       ELSE /\ fs' = [fs EXCEPT !.dest_root = TRUE]
            /\ trace' = Append(trace, Ev("mkdir", 0, TRUE))
            /\ pc' = "move"
    /\ UNCHANGED <<script, p, result, args, environ, images, i, uploaded, ann_ok>>

\* dest_root.mkdir(exist_ok); an existing destination is removed under
\* --overwrite, and otherwise reported and left (return)
DownloadResolveDest ==
    /\ script = "download" /\ pc = "resolve_dest"
    /\ IF fs.dest # "absent"
       THEN IF args.overwrite
            THEN /\ fs' = [fs EXCEPT !.dest_root = TRUE, !.dest = "absent", !.receipt = "absent"]
                 /\ trace' = trace \o <<Ev("mkdir", 0, TRUE), Ev("rmtree", 0, TRUE)>>
                 /\ pc' = "move"
            ELSE /\ fs' = [fs EXCEPT !.dest_root = TRUE]
                 /\ trace' = trace \o <<Ev("mkdir", 0, TRUE), Ev("next_steps", 0, TRUE)>>
                 /\ pc' = "done"
       ELSE /\ fs' = [fs EXCEPT !.dest_root = TRUE]
            /\ trace' = Append(trace, Ev("mkdir", 0, TRUE))
            /\ pc' = "move"
    /\ UNCHANGED <<script, p, result, args, environ, images, i, uploaded, ann_ok>>

\* shutil.move(src, dest), the receipt, print_next_steps
DownloadMove ==
    /\ script = "download" /\ pc = "move"
    /\ fs' = [fs EXCEPT !.src = FALSE, !.dest = "new", !.receipt = "new"]
    /\ trace' = trace \o <<Ev("move", 0, TRUE), Ev("receipt", 0, TRUE), Ev("next_steps", 0, TRUE)>>
    /\ pc' = "done"
    /\ UNCHANGED <<script, p, result, args, environ, images, i, uploaded, ann_ok>>

\* ------------------------------------------------------------------ spec
Next ==
    \/ Validate
    \/ UploadParseArgs
    \/ UploadCheckDirs
    \/ UploadConnect
    \/ UploadCollect
    \/ UploadIteration
    \/ UploadDone
    \/ DownloadParseArgs
    \/ DownloadCheckKey
    \/ DownloadImport
    \/ DownloadConnect
    \/ DownloadFetch
    \/ DownloadResolveDest
    \/ DownloadMove

Spec == Init /\ [][Next]_vars

TypeOK ==
    /\ script \in {"validate", "upload", "download"}
    /\ result \in {"none", "True", "False"}
    /\ i \in 0..Len(images)
    /\ uploaded \in 0..i

\* ------------------------------------------------ vocabulary of the claims
\* the whitespace-separated tokens of a line of text
Tokens(line) == SelectSeq(line, LAMBDA c : c # "")
IntegerTokens == {"0", "1", "7"}          \* tokens that are integer literals
UnitTokens    == {"0", "0.5", "1"}        \* tokens that denote a number in [0,1]
OutsideTokens == {"1.5", "-0.5", "7"}     \* tokens that denote a number outside [0,1]

BlankLine(line) == Tokens(line) = << >>
WellFormedLine(line) ==
    LET t == Tokens(line) IN
    /\ Len(t) = 5
    /\ t[1] \in IntegerTokens
    /\ \A k \in 2..5 : t[k] \in UnitTokens
WellFormedFile(f) ==
    /\ f.exists
    /\ \E n \in 1..Len(f.lines) : WellFormedLine(f.lines[n])
    /\ \A n \in 1..Len(f.lines) : BlankLine(f.lines[n]) \/ WellFormedLine(f.lines[n])

\* a non-blank line with a wrong token count or a coordinate outside [0,1]
MalformedLine(line) ==
    LET t == Tokens(line) IN
    /\ t # << >>
    /\ \/ Len(t) # 5
       \/ \E k \in 2..5 : t[k] \in OutsideTokens
RejectableFile(f) ==
    \/ ~f.exists
    \/ f.lines = << >>
    \/ \A n \in 1..Len(f.lines) : BlankLine(f.lines[n])
    \/ \E n \in 1..Len(f.lines) : MalformedLine(f.lines[n])

Returned == script = "validate" /\ pc = "done"

UploadCalls == SelectSeq(trace, LAMBDA e : e.op = "upload")
Ops == {trace[k].op : k \in 1..Len(trace)}
Uploading == script = "upload" /\ pc \in {"loop", "done"}

\* ------------------------------------------------------------------ claims

\* C1: is_valid_yolo_txt returns True for every existing file made of N >= 1
\* well-formed lines (five tokens, integer class, coordinates in [0,1] with the
\* endpoints) and any number of blank lines.
C1_WellFormedAccepted == (Returned /\ WellFormedFile(p)) => result = "True"

C1_Witness ==
    /\ Returned /\ WellFormedFile(p) /\ result = "True"
    /\ \E n \in 1..Len(p.lines) : BlankLine(p.lines[n])
    /\ \E n \in 1..Len(p.lines) :
          /\ WellFormedLine(p.lines[n])
          /\ \E k \in 2..5 : Tokens(p.lines[n])[k] = "0"
          /\ \E k \in 2..5 : Tokens(p.lines[n])[k] = "1"

\* C2: is_valid_yolo_txt returns False, and does not raise, for a missing file,
\* a zero-size file, a file of blank lines only, and any file with a non-blank
\* line that has a token count other than five or a coordinate outside [0,1],
\* whatever well-formed lines come before or after it.
C2_MalformedRejected ==
    /\ Returned => result \in {"True", "False"}
    /\ (Returned /\ RejectableFile(p)) => result = "False"

C2_Witness ==
    /\ Returned /\ result = "False"
    /\ Len(p.lines) >= 2
    /\ WellFormedLine(p.lines[1])
    /\ MalformedLine(p.lines[2])
    /\ Len(Tokens(p.lines[2])) = 5
    /\ \A n \in 3..Len(p.lines) : WellFormedLine(p.lines[n])

\* C3: a file with a five-token line whose first token is not an integer (such
\* as 1.5) is rejected, even when the four coordinates are in [0,1].
C3_NonIntegerClassRejected ==
    (/\ Returned
     /\ p.exists
     /\ \E n \in 1..Len(p.lines) :
           /\ Len(Tokens(p.lines[n])) = 5
           /\ Tokens(p.lines[n])[1] \notin IntegerTokens)
    => result = "False"

\* C4: without --dry_run a failing project.upload never stops the run: the
\* images of the selected list are attempted once each, in sorted order, the
\* run goes on to the Done report, and the count reported is the number of
\* upload calls that returned.
C4_UploadLoopSurvivesFailures ==
    /\ (script = "upload" /\ pc = "crashed") => "upload" \notin Ops
    /\ (Uploading /\ ~args.dry_run) =>
          /\ Len(UploadCalls) = i
          /\ \A k \in 1..i : UploadCalls[k].n = images[k]
          /\ \A a, b \in 1..Len(images) : a < b => images[a] < images[b]
          /\ \A k \in 1..Len(images) : images[k] \in fs.frames
          /\ Len(images) = IF args.limit > 0 /\ args.limit < Cardinality(fs.frames)
                           THEN args.limit ELSE Cardinality(fs.frames)
          /\ \A f \in fs.frames : \A k \in 1..Len(images) :
                f < images[k] => \E j \in 1..Len(images) : images[j] = f
          /\ uploaded = Cardinality({k \in 1..i : UploadCalls[k].ok})
          /\ pc = "loop" => ENABLED Next
          /\ pc = "done" =>
                /\ i = Len(images)
                /\ trace[Len(trace)] = Ev("done", uploaded, TRUE)

C4_Witness ==
    /\ Uploading /\ ~args.dry_run /\ pc = "done"
    /\ Len(images) = 3
    /\ UploadCalls[1].ok /\ ~UploadCalls[2].ok /\ UploadCalls[3].ok
    /\ uploaded = 2

\* C5: in both programs a missing or empty API key, and for the uploader a
\* missing frames folder, ends the process before any SDK call and before any
\* file is moved or written.
C5_FatalBeforeSdk ==
    (/\ script \in {"upload", "download"}
     /\ \/ args.api_key \in {"none", ""}
        \/ script = "upload" /\ ~fs.frames_dir)
    => Ops \cap (SdkOps \cup FileOps) = {}

\* C6: the download program, run without --api_key while ROBOFLOW_API_KEY is
\* set, goes on to connect and download rather than ending with an error.
C6_EnvKeyAccepted ==
    (/\ script = "download"
     /\ args.api_key = "none"
     /\ environ.ROBOFLOW_API_KEY # ""
     /\ fs.roboflow_pkg)
    => ~(pc = "exited" /\ "Roboflow" \notin Ops)

\* C7: with --sleep > 0 and no --dry_run a delay of that length lies between
\* every two consecutive upload calls, whether the earlier one succeeded or
\* failed; with --sleep 0 there is no delay at all.
C7_SleepBetweenUploads ==
    (script = "upload" /\ ~args.dry_run) =>
        /\ args.sleep = 0 => "sleep" \notin Ops
        /\ args.sleep > 0 =>
              \A a, b \in 1..Len(trace) :
                  (a < b /\ trace[a].op = "upload" /\ trace[b].op = "upload")
                  => \E m \in (a + 1)..(b - 1) : trace[m] = Ev("sleep", args.sleep, TRUE)

\* C8: in the download program an existing destination is left as it is when
\* --overwrite is not given: not removed, not moved over, no receipt written.
\* It is removed and replaced only under --overwrite.
C8_DestinationKept ==
    [][(script = "download" /\ fs.dest # "absent" /\ ~args.overwrite)
       => /\ fs'.dest = fs.dest
          /\ fs'.receipt = fs.receipt
          /\ \A k \in (Len(trace) + 1)..Len(trace') :
                trace'[k].op \notin {"rmtree", "move", "receipt"}]_vars

C8_Witness ==
    /\ script = "download" /\ pc = "done" /\ ~args.overwrite
    /\ fs.dest = "old" /\ fs.receipt = "absent" /\ fs.src
    /\ "download" \in Ops

\* C9: under --dry_run the uploader makes no project.upload call and never
\* sleeps, for any image list and any --limit, and reports 0 uploaded.
C9_DryRunSendsNothing ==
    (script = "upload" /\ args.dry_run) =>
        /\ Ops \cap {"upload", "sleep"} = {}
        /\ uploaded = 0
        /\ pc = "done" => trace[Len(trace)] = Ev("done", 0, TRUE)

C9_Witness ==
    /\ script = "upload" /\ args.dry_run /\ pc = "done"
    /\ Len(images) >= 2 /\ args.limit > 0 /\ args.sleep > 0
    /\ Cardinality(fs.frames) > args.limit

====
